---- MODULE Spec2Model ----
(***************************************************************************)
(* jop: a command line JSON processor.                                     *)
(*                                                                         *)
(* lib/cliutils.js parses the command line (yargs), extracts the pipeline  *)
(* of operations from process.argv, opens the input stream and prints the *)
(* result or the error.  bin/jop (and its copy under lib/) read the input  *)
(* stream, run the processor on its content at the end event and print.    *)
(* lib/processor.js is modelled from the specification (sections 4.2, 4.3  *)
(* and 7).                                                                 *)
(*                                                                         *)
(* Strings are sequences of one-character strings, so that indexOf,        *)
(* replace, string concatenation, JSON.parse and JSON.stringify are        *)
(* computed and not assumed.  JavaScript values are records [t, v].        *)
(***************************************************************************)
EXTENDS Integers, Sequences, FiniteSets, TLC

VARIABLES
    processArgv,   \* process.argv: the command line, a sequence of strings
    argv,          \* cliutils.js `argv`: the object yargs parsed (mutable)
    entry,         \* which main script runs: "bin" (bin/jop) or "lib" (its copy)
    source,        \* the chunks the input stream will deliver, in order
    pending,       \* the chunks not delivered yet
    jsonContent,   \* main's `jsonContent`
    pc,            \* "main" | "reading" | "done" | "exited" | "api"
    stdout,        \* console.log of printJson: the JSON documents printed
    stderr,        \* console.error / the runtime's report of an uncaught error
    helpShown,     \* whether yargs.showHelp ran
    exitCode,      \* the process's exit status, -1 while it runs
    runs,          \* how many times processContent was called
    pipelines,     \* what each call of cli.opts.pipeline() returned, in order
    argvLog,       \* argv as it was before each call of cli.opts.pipeline()
    out            \* what processContent returned or threw at the end event

vars == <<processArgv, argv, entry, source, pending, jsonContent, pc, stdout,
          stderr, helpShown, exitCode, runs, pipelines, argvLog, out>>

----------------------------------------------------------------------------
(* Bounds of the model *)

\* The number of command line items (a flag with its argument, or a file).
MaxItems == 3

\* The number of calls of cli.opts.pipeline() a client of cliutils makes.
MaxCalls == 3

----------------------------------------------------------------------------
(* JavaScript values *)

Undefined == [t |-> "undef", v |-> <<>>]
Bool(b)   == [t |-> "bool", v |-> <<b>>]
True      == Bool(TRUE)
False     == Bool(FALSE)
Num(n)    == [t |-> "num", v |-> <<n>>]
Str(s)    == [t |-> "str", v |-> s]
Arr(s)    == [t |-> "arr", v |-> s]

\* !x of JavaScript
Falsy(x) ==
    \/ x.t = "undef"
    \/ x = False
    \/ x = Num(0)
    \/ x = Str(<<>>)

Digits == <<"0", "1", "2", "3", "4", "5", "6", "7", "8", "9">>

DigitSet == {Digits[i] : i \in 1..10}

DigitValue(ch) == (CHOOSE i \in 1..10 : Digits[i] = ch) - 1

RECURSIVE NumberOf(_)
NumberOf(s) ==
    IF s = <<>> THEN 0
    ELSE 10 * NumberOf(SubSeq(s, 1, Len(s) - 1)) + DigitValue(s[Len(s)])

RECURSIVE NumToChars(_)
NumToChars(n) ==
    IF n < 10 THEN <<Digits[n + 1]>>
    ELSE NumToChars(n \div 10) \o <<Digits[(n % 10) + 1]>>

IsDigits(s) == Len(s) > 0 /\ \A i \in 1..Len(s) : s[i] \in DigitSet

RECURSIVE Concat(_)
Concat(chunks) ==
    IF chunks = <<>> THEN <<>> ELSE Head(chunks) \o Concat(Tail(chunks))

----------------------------------------------------------------------------
(* Strings of the command line *)

Dash == "-"

Node        == <<"n", "o", "d", "e">>
Script      == <<"j", "o", "p">>
K_c         == <<"c">>
K_count     == <<"c", "o", "u", "n", "t">>
K_p         == <<"p">>
K_pretty    == <<"p", "r", "e", "t", "t", "y">>
K_d         == <<"d">>
K_h         == <<"h">>
K_help      == <<"h", "e", "l", "p">>
K_keys      == <<"k", "e", "y", "s">>
K_values    == <<"v", "a", "l", "u", "e", "s">>
K_head      == <<"h", "e", "a", "d">>
K_tail      == <<"t", "a", "i", "l">>
K_sample    == <<"s", "a", "m", "p", "l", "e">>
K_zzz       == <<"z", "z", "z">>
K_positional == <<"_">>

Short(key) == <<Dash>> \o key
Long(key)  == <<Dash, Dash>> \o key

\* Two input files of the environment: one that exists, one that does not.
FileOk      == <<"a">>
FileMissing == <<"x">>

existsSync(file) == file = FileOk

\* val.indexOf("-") == 0
IsOption(val) == Len(val) > 0 /\ val[1] = Dash

\* val.replace(/-/g, "")
RemoveDashes(val) == SelectSeq(val, LAMBDA ch : ch # Dash)

----------------------------------------------------------------------------
(* availableOptions and the yargs parse of process.argv *)

\* The options declared boolean: true.
BooleanKeys == {K_c, K_count, K_p, K_pretty, K_keys, K_values, K_d, K_h, K_help}

\* alias: of availableOptions, both ways (c/count, p/pretty, h/help).
Aliases(key) ==
    CASE key = K_c      -> {K_count}
      [] key = K_count  -> {K_c}
      [] key = K_p      -> {K_pretty}
      [] key = K_pretty -> {K_p}
      [] key = K_h      -> {K_help}
      [] key = K_help   -> {K_h}
      [] OTHER          -> {}

\* default: of availableOptions.
HeadDefault   == 5
TailDefault   == 5
SampleDefault == 2

Defaults ==
    [k \in {K_head, K_tail, K_sample} |->
        IF k = K_sample THEN Num(SampleDefault)
        ELSE IF k = K_head THEN Num(HeadDefault) ELSE Num(TailDefault)]

\* argv[key]
Lookup(o, key) == IF key \in DOMAIN o THEN o[key] ELSE Undefined

Put(o, key, val) ==
    [k \in DOMAIN o \cup {key} |-> IF k = key THEN val ELSE o[k]]

\* The parser's setKey: a first value or a boolean is replaced, a second value
\* makes an array, a further one is pushed.
SetKey(o, key, val) ==
    LET old == Lookup(o, key) IN
    IF old.t = "undef" \/ old.t = "bool" THEN Put(o, key, val)
    ELSE IF old.t = "arr" THEN Put(o, key, Arr(Append(old.v, val)))
    ELSE Put(o, key, Arr(<<old, val>>))

RECURSIVE SetKeys(_, _, _)
SetKeys(o, keys, val) ==
    IF keys = {} THEN o
    ELSE LET k == CHOOSE x \in keys : TRUE
         IN SetKeys(SetKey(o, k, val), keys \ {k}, val)

\* The parser's setArg: the key and its aliases.
SetArg(o, key, val) == SetKeys(o, {key} \cup Aliases(key), val)

\* An argument that reads as a number is a number.
Coerce(tok) == IF IsDigits(tok) THEN Num(NumberOf(tok)) ELSE Str(tok)

\* The leading dashes of a flag removed.
RECURSIVE StripLeadingDashes(_)
StripLeadingDashes(tok) ==
    IF IsOption(tok) THEN StripLeadingDashes(Tail(tok)) ELSE tok

RECURSIVE YargsParse(_, _, _)
YargsParse(args, i, o) ==
    IF i > Len(args) THEN o
    ELSE
      LET tok == args[i] IN
      IF IsOption(tok) THEN
        LET key == StripLeadingDashes(tok) IN
        IF key \in BooleanKeys THEN YargsParse(args, i + 1, SetArg(o, key, True))
        ELSE IF i + 1 <= Len(args) /\ ~IsOption(args[i + 1])
          THEN YargsParse(args, i + 2, SetArg(o, key, Coerce(args[i + 1])))
          ELSE YargsParse(args, i + 1, SetArg(o, key, True))
      ELSE
        YargsParse(args, i + 1,
                   Put(o, K_positional,
                       Arr(Append(o[K_positional].v, Coerce(tok)))))

\* var argv = yargs.usage(usageTitle, availableOptions)....argv
Yargs(pargv) ==
    LET empty  == [k \in BooleanKeys \cup {K_positional} |->
                      IF k = K_positional THEN Arr(<<>>) ELSE False]
        parsed == YargsParse(SubSeq(pargv, 3, Len(pargv)), 1, empty)
    IN [k \in DOMAIN parsed \cup DOMAIN Defaults |->
           IF k \in DOMAIN parsed THEN parsed[k] ELSE Defaults[k]]

----------------------------------------------------------------------------
(* cliutils.js: the pipeline of operations *)

\* expression(opt): the expression and argv as the call leaves it.
Expression(opt, av) ==
    LET expr == Lookup(av, opt) IN
    IF Falsy(expr) \/ expr = True THEN [expr |-> False, argv |-> av]
    ELSE IF expr.t = "arr"
      THEN IF expr.v = <<>>
             THEN [expr |-> Undefined, argv |-> av]
             ELSE [expr |-> Head(expr.v),
                   argv |-> [av EXCEPT ![opt] = Arr(Tail(expr.v))]]
      ELSE [expr |-> expr, argv |-> av]

\* Mutant of IsOptionArg: only the declared options are taken for options.
IsDeclaredOptionArg(val) ==
    IsOption(val) /\ StripLeadingDashes(val) \in BooleanKeys \cup DOMAIN Defaults

\* var isoption = val.indexOf("-") == 0
IsOptionArg(val) == IsOption(val)

\* Mutant of PushOption: unshift for push.
UnshiftOption(options, d) == <<d>> \o options

\* options.push({opt: opt, expr: expr})
PushOption(options, d) == Append(options, d)

RECURSIVE ExtractFrom(_, _, _, _)
ExtractFrom(pargv, i, options, av) ==
    IF i > Len(pargv) THEN [options |-> options, argv |-> av]
    ELSE
      LET val == pargv[i] IN
      IF IsOptionArg(val) THEN
        LET opt == RemoveDashes(val)
            e   == Expression(opt, av)
        IN ExtractFrom(pargv, i + 1,
                       PushOption(options, [opt |-> opt, expr |-> e.expr]), e.argv)
      ELSE ExtractFrom(pargv, i + 1, options, av)

\* extractOperations(): the descriptors and argv as the call leaves it.
extractOperations(pargv, av) == ExtractFrom(pargv, 1, <<>>, av)

----------------------------------------------------------------------------
(* lib/processor.js, from the specification: JSON.parse, the operation      *)
(* registry and the fold (sections 4.2, 4.3 and 7).  The JSON texts are     *)
(* numbers and flat arrays of numbers, without white space.                 *)

NoError == [kind |-> "", flag |-> <<>>]
Error(kind, flag) == [kind |-> kind, flag |-> flag]

IsJsonNumber(s) == IsDigits(s) /\ (Len(s) > 1 => s[1] # "0")

RECURSIVE SplitCommas(_)
SplitCommas(s) ==
    IF \A i \in 1..Len(s) : s[i] # ","
      THEN <<s>>
      ELSE LET i == CHOOSE k \in 1..Len(s) :
                       s[k] = "," /\ \A j \in 1..(k - 1) : s[j] # ","
           IN <<SubSeq(s, 1, i - 1)>> \o SplitCommas(SubSeq(s, i + 1, Len(s)))

\* JSON.parse(jsonContent): step 1 of process.
ParseJson(text) ==
    IF IsJsonNumber(text) THEN [ok |-> TRUE, value |-> Num(NumberOf(text))]
    ELSE IF Len(text) >= 2 /\ text[1] = "[" /\ text[Len(text)] = "]" THEN
      LET inner == SubSeq(text, 2, Len(text) - 1)
          parts == SplitCommas(inner)
      IN IF inner = <<>> THEN [ok |-> TRUE, value |-> Arr(<<>>)]
         ELSE IF \A i \in 1..Len(parts) : IsJsonNumber(parts[i])
           THEN [ok |-> TRUE,
                 value |-> Arr([i \in 1..Len(parts) |-> Num(NumberOf(parts[i]))])]
           ELSE [ok |-> FALSE, value |-> Undefined]
    ELSE [ok |-> FALSE, value |-> Undefined]

\* The operation names of the registry that the model covers.
Registry == {K_c, K_count, K_head, K_tail}

Min(a, b) == IF a < b THEN a ELSE b

\* N of head and tail: the expression, or the default when none was given.
SizeArgument(expr, default) ==
    IF expr = False THEN [ok |-> TRUE, n |-> default]
    ELSE IF expr.t = "num" THEN [ok |-> TRUE, n |-> expr.v[1]]
    ELSE [ok |-> FALSE, n |-> 0]

\* One operation of the registry: (currentValue, expression) -> nextValue.
ApplyOperation(opt, value, expr) ==
    IF opt \in {K_c, K_count} THEN
      \* count: the element count; a scalar has no elements.
      [ok |-> TRUE, err |-> NoError,
       value |-> IF value.t = "arr" THEN Num(Len(value.v)) ELSE Num(0)]
    ELSE
      LET size == SizeArgument(expr, IF opt = K_head THEN HeadDefault
                                                       ELSE TailDefault)
      IN IF value.t # "arr"
           THEN [ok |-> FALSE, err |-> Error("TypeMismatchError", opt),
                 value |-> Undefined]
         ELSE IF ~size.ok
           THEN [ok |-> FALSE, err |-> Error("ArgumentError", opt),
                 value |-> Undefined]
         ELSE LET len == Len(value.v)
                  n   == Min(size.n, len)
              IN [ok |-> TRUE, err |-> NoError,
                  value |-> IF opt = K_head
                              THEN Arr(SubSeq(value.v, 1, n))
                              ELSE Arr(SubSeq(value.v, len - n + 1, len))]

NotRun ==
    [ran |-> FALSE, ok |-> FALSE, text |-> <<>>, value |-> Undefined,
     err |-> NoError, steps |-> <<>>, diag |-> <<>>]

\* The fold of the operation list over the state, left to right.
RECURSIVE Fold(_, _, _, _, _, _)
Fold(text, pipeline, i, state, steps, debug) ==
    LET diag == IF debug THEN [k \in 1..Len(steps) |-> steps[k].out] ELSE <<>> IN
    IF i > Len(pipeline)
      THEN [ran |-> TRUE, ok |-> TRUE, text |-> text, value |-> state,
            err |-> NoError, steps |-> steps, diag |-> diag]
    ELSE
      LET op == pipeline[i] IN
      IF op.opt \notin Registry
        THEN [ran |-> TRUE, ok |-> FALSE, text |-> text, value |-> Undefined,
              err |-> Error("UnknownOperationError", op.opt),
              steps |-> steps, diag |-> diag]
      ELSE
        LET r == ApplyOperation(op.opt, state, op.expr) IN
        IF ~r.ok
          THEN [ran |-> TRUE, ok |-> FALSE, text |-> text, value |-> Undefined,
                err |-> r.err, steps |-> steps, diag |-> diag]
          ELSE Fold(text, pipeline, i + 1, r.value,
                    Append(steps, [opt |-> op.opt, expr |-> op.expr,
                                   in |-> state, out |-> r.value]),
                    debug)

\* processContent(jsonContent, pipeline, debug)
processContent(text, pipeline, debug) ==
    LET parsed == ParseJson(text) IN
    IF ~parsed.ok
      THEN [ran |-> TRUE, ok |-> FALSE, text |-> text, value |-> Undefined,
            err |-> Error("ParseError", <<>>), steps |-> <<>>, diag |-> <<>>]
      ELSE Fold(text, pipeline, 1, parsed.value, <<>>, debug)

----------------------------------------------------------------------------
(* cliutils.js: exports.opts and exports.io *)

prettyprintIndent == 2

RECURSIVE Spaces(_)
Spaces(n) == IF n = 0 THEN <<>> ELSE <<" ">> \o Spaces(n - 1)

RECURSIVE Join(_, _)
Join(parts, sep) ==
    IF parts = <<>> THEN <<>>
    ELSE IF Len(parts) = 1 THEN parts[1]
    ELSE parts[1] \o sep \o Join(Tail(parts), sep)

\* Mutant of Stringify: the elements of an array are not separated.
StringifyNoSeparator(content, indent) ==
    IF content.t = "num" THEN NumToChars(content.v[1])
    ELSE <<"[">>
         \o Join([i \in 1..Len(content.v) |-> NumToChars(content.v[i].v[1])], <<>>)
         \o <<"]">>

\* JSON.stringify(content) and JSON.stringify(content, undefined, indent)
Stringify(content, indent) ==
    IF content.t = "num" THEN NumToChars(content.v[1])
    ELSE IF content.t = "arr" THEN
      LET items == [i \in 1..Len(content.v) |-> NumToChars(content.v[i].v[1])] IN
      IF indent = 0 \/ items = <<>>
        THEN <<"[">> \o Join(items, <<",">>) \o <<"]">>
        ELSE <<"[", "\n">>
             \o Join([i \in 1..Len(items) |-> Spaces(indent) \o items[i]],
                     <<",", "\n">>)
             \o <<"\n", "]">>
    ELSE <<"u", "n", "d", "e", "f", "i", "n", "e", "d">>

\* printJson(content): the line console.log writes.
printJson(content, av) ==
    IF ~Falsy(Lookup(av, K_p)) THEN Stringify(content, prettyprintIndent)
    ELSE Stringify(content, 0)

\* opts.debug: argv.d
Debug(av) == ~Falsy(Lookup(av, K_d))

\* opts.usage(): whether the help was asked for (and is shown).
usage(av) == ~Falsy(Lookup(av, K_h))

\* inputStream() throws when the file named on the command line is missing.
InputFileMissing(av) ==
    LET files == Lookup(av, K_positional).v IN
    Len(files) > 0 /\ ~existsSync(files[1].v)

UnableToRead == Error("Unable to read", <<>>)
TypeErrorNotAFunction == Error("TypeError: cli.io.printError is not a function", <<>>)

\* Mutant of printErrorAndExit: the error is printed and the process goes on
\* to end by itself, with status 0.
printErrorNoExit(e) ==
    /\ stderr' = Append(stderr, e)
    /\ exitCode' = 0
    /\ pc' = "done"

\* printErrorAndExit(e): console.error(e.toString()); process.exit(1)
printErrorAndExit(e) ==
    /\ stderr' = Append(stderr, e)
    /\ exitCode' = 1
    /\ pc' = "exited"

\* The catch clauses of the two main scripts.  bin/jop calls
\* printErrorAndExit.  The copy under lib calls cli.io.printError, which
\* cliutils does not export: the call throws a TypeError out of the catch
\* clause, and the runtime reports that uncaught error and ends the process
\* with its own non-zero status.
Catch(e) ==
    \/ /\ entry = "bin"
       /\ printErrorAndExit(e)
    \/ /\ entry = "lib"
       /\ stderr' = Append(stderr, TypeErrorNotAFunction)
       /\ exitCode' \in {1, 8}
       /\ pc' = "exited"

----------------------------------------------------------------------------
(* The inputs: command lines and input streams *)

\* A command line item: a flag alone, a flag with its argument (a number, or
\* the empty string), or a file.
Items ==
    { <<Short(K_c)>>, <<Long(K_count)>>, <<Short(K_p)>>, <<Short(K_d)>>,
      <<Short(K_h)>>, <<Long(K_zzz)>>,
      <<Long(K_head), <<"0">>>>, <<Long(K_head), <<"1">>>>,
      <<Long(K_head), <<"2">>>>, <<Long(K_head), <<>>>>,
      <<Long(K_tail), <<"1">>>>,
      <<FileOk>>, <<FileMissing>> }

RECURSIVE CommandLines(_)
CommandLines(n) ==
    IF n = 0 THEN {<<>>}
    ELSE LET shorter == CommandLines(n - 1)
         IN shorter \cup {c \o i : c \in shorter, i \in Items}

\* What the input stream delivers: the chunks of a JSON text (or of a text
\* that is no JSON), in their order of arrival.
Sources ==
    { <<<<"[", "2", ",", "1", "]">>>>,
      <<<<"[", "2">>, <<",", "1", "]">>>>,
      <<<<"[", "3", ",", "1">>, <<",", "2", "]">>>>,
      <<<<"1">>, <<"2">>>>,
      <<<<"[", "]">>>>,
      <<<<"[", "2", ",">>>>,
      <<>> }

----------------------------------------------------------------------------
(* The main script: bin/jop, and its copy under lib *)

InitWith(pc0, entries, sources) ==
    /\ processArgv \in {<<Node, Script>> \o c : c \in CommandLines(MaxItems)}
    /\ argv = Yargs(processArgv)
    /\ entry \in entries
    /\ source \in sources
    /\ pending = source
    /\ jsonContent = <<>>
    /\ pc = pc0
    /\ stdout = <<>>
    /\ stderr = <<>>
    /\ helpShown = FALSE
    /\ exitCode = -1
    /\ runs = 0
    /\ pipelines = <<>>
    /\ argvLog = <<>>
    /\ out = NotRun

Init == InitWith("main", {"bin", "lib"}, Sources)

\* The body of the script up to the registration of the two handlers.
Main ==
    /\ pc = "main"
    /\ IF usage(argv)
         THEN /\ helpShown' = TRUE
              /\ exitCode' = 0
              /\ pc' = "exited"
              /\ UNCHANGED stderr
       ELSE IF InputFileMissing(argv)
         THEN /\ Catch(UnableToRead)
              /\ UNCHANGED helpShown
       ELSE /\ pc' = "reading"
            /\ UNCHANGED <<stderr, exitCode, helpShown>>
    /\ UNCHANGED <<processArgv, argv, entry, source, pending, jsonContent,
                   stdout, runs, pipelines, argvLog, out>>

\* Mutant of OnData: jsonContent = chunk + jsonContent
OnDataPrepend ==
    /\ pc = "reading"
    /\ pending # <<>>
    /\ jsonContent' = Head(pending) \o jsonContent
    /\ pending' = Tail(pending)
    /\ UNCHANGED <<processArgv, argv, entry, source, pc, stdout, stderr,
                   helpShown, exitCode, runs, pipelines, argvLog, out>>

\* jsonStream.on('data'): jsonContent += chunk
OnData ==
    /\ pc = "reading"
    /\ pending # <<>>
    /\ jsonContent' = jsonContent \o Head(pending)
    /\ pending' = Tail(pending)
    /\ UNCHANGED <<processArgv, argv, entry, source, pc, stdout, stderr,
                   helpShown, exitCode, runs, pipelines, argvLog, out>>

\* jsonStream.on('end'): process the content and print the result, or report
\* the error.  Without an error the process ends with status 0.
OnEnd ==
    /\ pc = "reading"
    /\ pending = <<>>
    /\ LET px == extractOperations(processArgv, argv)
           r  == processContent(jsonContent, px.options, Debug(argv))
       IN /\ argv' = px.argv
          /\ pipelines' = Append(pipelines, px.options)
          /\ argvLog' = Append(argvLog, argv)
          /\ runs' = runs + 1
          /\ out' = r
          /\ IF r.ok
               THEN /\ stdout' = Append(stdout, printJson(r.value, px.argv))
                    /\ pc' = "done"
                    /\ exitCode' = 0
                    /\ UNCHANGED stderr
               ELSE /\ Catch(r.err)
                    /\ UNCHANGED stdout
    /\ UNCHANGED <<processArgv, entry, source, pending, jsonContent, helpShown>>

Next == Main \/ OnData \/ OnEnd

Spec == Init /\ [][Next]_vars

----------------------------------------------------------------------------
(* A client of cliutils that calls cli.opts.pipeline() several times *)

InitApi == InitWith("api", {"bin"}, {<<>>})

PipelineCall ==
    /\ pc = "api"
    /\ Len(pipelines) < MaxCalls
    /\ LET px == extractOperations(processArgv, argv)
       IN /\ argv' = px.argv
          /\ pipelines' = Append(pipelines, px.options)
          /\ argvLog' = Append(argvLog, argv)
    /\ UNCHANGED <<processArgv, entry, source, pending, jsonContent, pc, stdout,
                   stderr, helpShown, exitCode, runs, out>>

SpecApi == InitApi /\ [][PipelineCall]_vars

----------------------------------------------------------------------------
(* What the claims speak of *)

Finished == pc \in {"done", "exited"}

\* The flags of the command line, in their order of occurrence.
Flags == SelectSeq(processArgv, IsOption)

\* The positions of process.argv that hold a flag.
FlagPositions == {j \in 1..Len(processArgv) : IsOption(processArgv[j])}

\* The positions of the flags named n.
PositionsOf(n) == {j \in FlagPositions : RemoveDashes(processArgv[j]) = n}

\* Whether the flag at position j was given an argument.
HasArgument(j) ==
    /\ StripLeadingDashes(processArgv[j]) \notin BooleanKeys
    /\ j + 1 <= Len(processArgv)
    /\ ~IsOption(processArgv[j + 1])

\* The rank of j in the set of positions S.
Rank(S, j) == Cardinality({k \in S : k <= j})

\* The descriptor that the first call of pipeline() made for position j.
DescriptorOf(j) == pipelines[1][Rank(FlagPositions, j)]

\* The text the input stream delivers in all.
Input == Concat(source)

\* The first flag that names no operation of the registry (0: none).
FirstUnknown ==
    LET U == {i \in 1..Len(Flags) : RemoveDashes(Flags[i]) \notin Registry}
    IN IF U = {} THEN 0 ELSE CHOOSE i \in U : \A k \in U : i <= k

\* Whether the command line has a presentation or diagnostic flag.
PresentationFlagGiven ==
    \E i \in 1..Len(Flags) :
        RemoveDashes(Flags[i]) \in {K_p, K_pretty, K_d, K_h, K_help}

\* The command line without its -d flags.
WithoutDebug(pargv) == SelectSeq(pargv, LAMBDA tok : tok # Short(K_d))

\* What a whole run prints on the standard output.
FinalStdout(pargv, text) ==
    LET av == Yargs(pargv) IN
    IF usage(av) \/ InputFileMissing(av) THEN <<>>
    ELSE LET px == extractOperations(pargv, av)
             r  == processContent(text, px.options, Debug(av))
         IN IF r.ok THEN <<printJson(r.value, px.argv)>> ELSE <<>>

----------------------------------------------------------------------------
(* The claims *)

\* C1: when processing succeeds, the operations applied are the operations
\* of the command line, each once and in the order of their flags; the
\* first receives the parsed input, each other one the output of the one
\* before it, and the value returned (and printed) is the last output.
C1_FoldInOrder ==
    (out.ran /\ out.ok) =>
        LET st     == out.steps
            p      == pipelines[1]
            parsed == ParseJson(Input).value
        IN /\ Len(st) = Len(Flags)
           /\ Len(p) = Len(Flags)
           /\ \A i \in 1..Len(st) :
                /\ st[i].opt = RemoveDashes(Flags[i])
                /\ st[i].opt = p[i].opt
                /\ st[i].expr = p[i].expr
                /\ st[i].in = IF i = 1 THEN parsed ELSE st[i - 1].out
                /\ st[i].out = ApplyOperation(p[i].opt, st[i].in, p[i].expr).value
           /\ out.value = IF st = <<>> THEN parsed ELSE st[Len(st)].out
           /\ stdout = <<printJson(out.value, argv)>>

\* C1 witness: --head 1 then a count, on [2,1]: [2], then 1.
C1_Witness ==
    /\ pc = "done"
    /\ Len(out.steps) = 2
    /\ out.steps[1].opt = K_head
    /\ out.steps[1].in = Arr(<<Num(2), Num(1)>>)
    /\ out.steps[1].out = Arr(<<Num(2)>>)
    /\ out.steps[2].opt = K_c
    /\ stdout = <<<<"1">>>>

\* C2 (as claimed): the descriptors are the flags in their order of
\* occurrence, and for every name the i-th occurrence of the flag carries
\* the i-th expression supplied for that name.
C2_OrderAndOwnExpression ==
    out.ran =>
        /\ Len(pipelines[1]) = Len(Flags)
        /\ \A i \in 1..Len(Flags) : pipelines[1][i].opt = RemoveDashes(Flags[i])
        /\ \A j \in FlagPositions :
             HasArgument(j) =>
               LET n     == RemoveDashes(processArgv[j])
                   given == {k \in PositionsOf(n) : HasArgument(k)}
                   i     == Rank(given, j)
                   occ   == CHOOSE k \in PositionsOf(n) : Rank(PositionsOf(n), k) = i
               IN DescriptorOf(occ).expr = Coerce(processArgv[j + 1])

C5_FalseOnlyWithoutArgument ==
    out.ran =>
        \A j \in FlagPositions :
            /\ HasArgument(j) => DescriptorOf(j).expr # False
            /\ StripLeadingDashes(processArgv[j]) \in BooleanKeys
                 => DescriptorOf(j).expr = False

\* C6: with an empty operation list and an input that is valid JSON,
\* processContent returns the parsed input, and the one document printed
\* reads back as that value.
C6_IdentityLaw ==
    (out.ran /\ pipelines[1] = <<>> /\ ParseJson(Input).ok) =>
        /\ out.ok
        /\ out.steps = <<>>
        /\ out.value = ParseJson(Input).value
        /\ Len(stdout) = 1
        /\ ParseJson(stdout[1]) = [ok |-> TRUE, value |-> ParseJson(Input).value]

\* C6 witness: no flag, input [3,1,2] in two chunks, printed as it came.
C6_Witness ==
    /\ pc = "done"
    /\ pipelines = <<<<>>>>
    /\ out.value = Arr(<<Num(3), Num(1), Num(2)>>)
    /\ stdout = <<<<"[", "3", ",", "1", ",", "2", "]">>>>

\* C7 (as claimed): a finished run prints what the same run without the -d
\* flag prints.
C7_DebugChangesNothing ==
    Finished => stdout = FinalStdout(WithoutDebug(processArgv), Input)

\* C8 (as claimed): every call of cli.opts.pipeline() returns what the first
\* call returned, and leaves argv as it was.
C8_PipelineRepeatable ==
    /\ \A i \in 1..Len(pipelines) : pipelines[i] = pipelines[1]
    /\ argvLog # <<>> => argv = argvLog[1]

\* C9 (as claimed): no descriptor of the pipeline comes from a presentation
\* or diagnostic flag (-p/--pretty, -d, -h/--help).
C9_OnlyDataOperations ==
    out.ran =>
        \A i \in 1..Len(pipelines[1]) :
            pipelines[1][i].opt \notin {K_p, K_pretty, K_d, K_h, K_help}

\* C10: processContent runs at most once and at most one document is
\* printed; a document is printed only when the stream has ended, by the run
\* on the concatenation of all the chunks in their order of arrival; and a
\* run that succeeds prints exactly one document.
C10_OneRunAfterEnd ==
    /\ runs <= 1
    /\ Len(stdout) <= 1
    /\ out.ran <=> runs = 1
    /\ out.ran => /\ pending = <<>>
                  /\ jsonContent = Input
                  /\ out.text = Input
    /\ stdout # <<>> => out.ran /\ out.ok /\ pc = "done"
    /\ (out.ran /\ out.ok) => Len(stdout) = 1

\* C10 witness: a document printed for an input that came in two chunks.
C10_Witness ==
    /\ Len(stdout) = 1
    /\ Len(source) = 2
    /\ jsonContent = <<"1", "2">>
    /\ out.value = Num(12)

====
